---- MODULE Spec2Model ----
(***************************************************************************)
(* Macro Tetris meal-plan engine (src/src/lib/macroTetris.ts).             *)
(*                                                                         *)
(* One invocation of generatePlan(userId, weekStart) is modelled as a      *)
(* state machine whose steps are the awaited database operations and the   *)
(* pure stages between them.  The pure stages are operators that compute   *)
(* what the TypeScript computes, in exact integer arithmetic:              *)
(*   - a quotient n/d that the code rounds, floors or ceils is kept as     *)
(*     the pair (n, d) and rounded by Round, Floor, Ceil below;            *)
(*   - nutrition values are in hundredths (the columns are numeric(5,2));  *)
(*   - Infinity (Math.min seed, division of a positive number by 0) is a   *)
(*     number larger than every quantity of the model.                     *)
(* Doubles differ from exact arithmetic only at exact .5 ties of values    *)
(* that are not representable; the model does not cover that.              *)
(***************************************************************************)
EXTENDS Integers, Sequences, FiniteSets, TLC

\* ------------------------------------------------------------------ bounds
\* recipes in the recipe pool
MaxRecipes == 2

\* largest factor by which the quantities of a recipe are scaled
MaxScale == 3

\* resolved recipes handed to the assignment stages on their own
MaxFillRecipes == 5

\* assignments of a plan two concurrent invocations insert
MaxMeals == 2

\* timers the hook holds at once
MaxTimers == 2

\* ----------------------------------------------------------- number helpers
\* variant of Ceil: Math.round in its place
CeilAsRound(n, d) == (2 * n + d) \div (2 * d)

\* Math.ceil(n / d), d > 0
Ceil(n, d) == -((-n) \div d)

\* Math.round(n / d), d > 0: the nearest integer, ties towards +Infinity
Round(n, d) == (2 * n + d) \div (2 * d)

\* variant of Floor: Math.round in place of Math.floor
FloorAsRound(n, d) == Round(n, d)

\* variant of Floor: Math.ceil in place of Math.floor
FloorAsCeil(n, d) == Ceil(n, d)

\* Math.floor(n / d), d > 0
Floor(n, d) == n \div d

Abs(n) == IF n < 0 THEN -n ELSE n

Min2(a, b) == IF a <= b THEN a ELSE b

Max2(a, b) == IF a >= b THEN a ELSE b

\* the value of JavaScript's Infinity, above every finite value of the model
Infinity == 1000000000

\* default parameter daysInWeek = 7
daysInWeek == 7

\* ------------------------------------------------------------------ inputs
Ingredients == <<"chicken", "rice">>

\* ingredients rows: per-100-unit profile, in hundredths
Catalogue ==
  [ chicken |-> [kcal |-> 16500, protein |-> 2300, carbs |-> 0,    fat |-> 360],
    rice    |-> [kcal |-> 11100, protein |-> 260,  carbs |-> 2300, fat |-> 90] ]

\* hundredths per unit of a numeric(5,2) column
NutritionScale == 100

\* quantities a recipe_ingredients row may hold (0 stands for: no row)
Quantities == {0, 100, 150}

\* quantities a pantry_items row may hold (-1 stands for: no row)
PantryQuantities == {-1, 100, 450}

\* users rows
Targets ==
  { [kcal_target |-> 2000, protein_pct |-> 30,  carb_pct |-> 40, fat_pct |-> 30],
    [kcal_target |-> 20,   protein_pct |-> 30,  carb_pct |-> 40, fat_pct |-> 30],
    [kcal_target |-> 59,   protein_pct |-> 30,  carb_pct |-> 40, fat_pct |-> 30],
    [kcal_target |-> 0,    protein_pct |-> 30,  carb_pct |-> 40, fat_pct |-> 30],
    [kcal_target |-> 2000, protein_pct |-> 120, carb_pct |-> 40, fat_pct |-> 30],
    [kcal_target |-> 2000, protein_pct |-> 50,  carb_pct |-> 50, fat_pct |-> 0] }

Null == [null |-> TRUE]

\* the rows of a table keyed by ingredient, in catalogue order, each with the
\* ingredients row the select joins to it: ingredients (*)
RowsOf(q, absent) ==
  LET keep(i) == q[i] # absent
      F[i \in 0..Len(Ingredients)] ==
        IF i = 0 THEN << >>
        ELSE IF keep(i)
             THEN Append(F[i - 1], [ingredient_id |-> Ingredients[i], quantity |-> q[i],
                                    ingredients |-> Catalogue[Ingredients[i]]])
             ELSE F[i - 1]
  IN F[Len(Ingredients)]

\* a recipe_ingredients row the join attached no ingredients row to
DanglingShape ==
  << [ingredient_id |-> "rice", quantity |-> 100, ingredients |-> Null] >>

\* recipes with their recipe_ingredients rows (primary key recipe_id, ingredient_id)
RecipeShapes ==
  { RowsOf(q, 0) : q \in [1..Len(Ingredients) -> Quantities] } \cup {DanglingShape}

\* pantry_items of the user (primary key user_id, ingredient_id)
Pantries == { RowsOf(q, -1) : q \in [1..Len(Ingredients) -> PantryQuantities] }

RecipeLists ==
  UNION { { [i \in 1..n |-> [id |-> i, recipe_ingredients |-> f[i]]] :
              f \in [1..n -> RecipeShapes] } : n \in 0..MaxRecipes }

\* ------------------------------------------------------------ pure stages
RECURSIVE SumSeq(_)
SumSeq(s) == IF s = << >> THEN 0 ELSE Head(s) + SumSeq(Tail(s))

\* variant of RoundMacro: the accumulated macro is truncated
RoundMacroTruncating(total) == total \div (100 * NutritionScale)

\* Math.round of an accumulated macro; total is the sum of value x quantity, in
\* hundredths of hundredths
RoundMacro(total) == Round(total, 100 * NutritionScale)

\* variant of MissingNutrition: a requirement without its ingredients row passes
MissingNutritionIgnored(ingredient) == FALSE

\* const nutrition = ingredient.ingredients is null
MissingNutrition(ingredient) == ingredient.ingredients = Null

\* nutrition.kcal etc.; reading a field of null throws, see calculateRecipeMacrosThrows
NutritionOf(ingredient, field) ==
  IF ingredient.ingredients = Null THEN 0 ELSE ingredient.ingredients[field]

\* calculateRecipeMacros throws a TypeError: nutrition.kcal with nutrition null
calculateRecipeMacrosThrows(recipe) ==
  \E k \in 1..Len(recipe.recipe_ingredients) :
     MissingNutrition(recipe.recipe_ingredients[k])

\* calculateRecipeMacros: sum of per-100 value x quantity / 100, then Math.round
calculateRecipeMacros(recipe) ==
  LET ri == recipe.recipe_ingredients
      total(field) ==
        SumSeq([k \in 1..Len(ri) |-> NutritionOf(ri[k], field) * ri[k].quantity])
  IN [calories |-> RoundMacro(total("kcal")),
      protein  |-> RoundMacro(total("protein")),
      carbs    |-> RoundMacro(total("carbs")),
      fat      |-> RoundMacro(total("fat"))]

\* pantryItems.find((p) => p.ingredient_id === id): index of the first match, 0 if none
PantryFind(pantryItems, id) ==
  LET hits == {k \in 1..Len(pantryItems) : pantryItems[k].ingredient_id = id}
  IN IF hits = {} THEN 0 ELSE CHOOSE k \in hits : \A j \in hits : k <= j

\* variant of ServingsWithoutPantry: the requirement is passed over
ServingsWithoutPantrySkipped(maxServings) == maxServings

\* if (!pantryItem) { maxServings = 0; return }
ServingsWithoutPantry(maxServings) == 0

\* calculateAvailableServings: the forEach folds maxServings over the requirements
calculateAvailableServings(recipe, pantryItems) ==
  LET ri == recipe.recipe_ingredients
      F[k \in 0..Len(ri)] ==
        IF k = 0 THEN Infinity
        ELSE LET p == PantryFind(pantryItems, ri[k].ingredient_id)
             IN IF p = 0 THEN ServingsWithoutPantry(F[k - 1])
                ELSE Min2(F[k - 1], Floor(pantryItems[p].quantity, ri[k].quantity))
      maxServings == F[Len(ri)]
  IN IF maxServings = Infinity THEN 0 ELSE maxServings

\* Calculate daily macro targets (generatePlan step 1, after the fetches)
DailyTargetsOf(userProfile) ==
  [calories |-> userProfile.kcal_target,
   protein  |-> Round(userProfile.kcal_target * userProfile.protein_pct, 400),
   carbs    |-> Round(userProfile.kcal_target * userProfile.carb_pct, 400),
   fat      |-> Round(userProfile.kcal_target * userProfile.fat_pct, 900)]

\* proteinDensity = calories > 0 ? protein / calories * 100 : 0, kept as a quotient
ProteinDensityOf(macros) ==
  IF macros.calories > 0 THEN <<macros.protein, macros.calories>> ELSE <<0, 1>>

\* generatePlan step 2: macros, availability and density of every recipe
ProcessRecipes(rs, pantryItems) ==
  [i \in 1..Len(rs) |->
     LET macros == calculateRecipeMacros(rs[i])
     IN [id |-> rs[i].id,
         recipe_ingredients |-> rs[i].recipe_ingredients,
         macros |-> macros,
         proteinDensity |-> ProteinDensityOf(macros),
         availableServings |-> calculateAvailableServings(rs[i], pantryItems)]]

\* recipes.map(...) throws when calculateRecipeMacros does for one of the recipes
ProcessRecipesThrows(rs) == \E i \in 1..Len(rs) : calculateRecipeMacrosThrows(rs[i])

\* the quotient a sort orders by: proteinDensity, carbs / calories or fat / calories
DensityOf(r, kind) ==
  IF kind = "protein" THEN r.proteinDensity
  ELSE IF kind = "carbs" THEN <<r.macros.carbs, r.macros.calories>>
  ELSE <<r.macros.fat, r.macros.calories>>

\* a's quotient is greater than b's (x / 0 is Infinity for x > 0)
DensityGt(a, b, kind) ==
  DensityOf(a, kind)[1] * DensityOf(b, kind)[2] > DensityOf(b, kind)[1] * DensityOf(a, kind)[2]

\* variant of SortDescending: the list is left in its order
SortKeepingOrder(s, kind) == s

\* Array.prototype.sort((a, b) => key(b) - key(a)): descending and stable
RECURSIVE SortDescending(_, _)
SortDescending(s, kind) ==
  IF s = << >> THEN << >>
  ELSE LET k == CHOOSE k \in 1..Len(s) :
                  /\ \A j \in 1..Len(s) : ~DensityGt(s[j], s[k], kind)
                  /\ \A j \in 1..(k - 1) : DensityGt(s[k], s[j], kind)
           rest == [j \in 1..(Len(s) - 1) |-> IF j < k THEN s[j] ELSE s[j + 1]]
       IN <<s[k]>> \o SortDescending(rest, kind)

Available(r) == r.availableServings > 0

\* the array sortByProteinDensity received, after the call: filter returns a new
\* array and sort reorders that one in place
sortByProteinDensityArgument(rs) == rs

sortByProteinDensity(rs) == SortDescending(SelectSeq(rs, Available), "protein")

\* variant of mealSlots: the snack slot takes part in the rotation
mealSlotsWithSnack == <<"breakfast", "lunch", "dinner", "snack">>

mealSlots == <<"breakfast", "lunch", "dinner">>

ZeroMacros == [calories |-> 0, protein |-> 0, carbs |-> 0, fat |-> 0]

\* variant of ServingsToAdd: the pantry does not limit the servings
ServingsToAddIgnoringPantry(servingsNeeded, availableServings) ==
  Min2(servingsNeeded, 3)

\* variant of ServingsToAdd: the cap is 4
ServingsToAddCapFour(servingsNeeded, availableServings) ==
  Min2(Min2(servingsNeeded, availableServings), 4)

\* servingsToAdd = Math.min(servingsNeeded, recipe.availableServings, 3)
ServingsToAdd(servingsNeeded, availableServings) ==
  Min2(Min2(servingsNeeded, availableServings), 3)

\* one pass of the for loop of greedyProteinFill over the sorted recipes;
\* st.stopped records the break
GreedyStep(st, recipe, dailyTargets) ==
  LET gapNum == daysInWeek * dailyTargets.protein - st.currentMacros.protein
      servingsNeeded ==
        IF recipe.macros.protein = 0 THEN Infinity
        ELSE Ceil(gapNum, daysInWeek * recipe.macros.protein)
      servingsToAdd == ServingsToAdd(servingsNeeded, recipe.availableServings)
  IN IF st.stopped THEN st
     ELSE IF gapNum <= 0 THEN [st EXCEPT !.stopped = TRUE]
     ELSE IF servingsToAdd > 0
          THEN [selectedRecipes |->
                  Append(st.selectedRecipes,
                         [recipe |-> recipe.id,
                          servings |-> servingsToAdd,
                          day |-> st.currentDay % daysInWeek,
                          slot |-> mealSlots[(st.currentSlot % Len(mealSlots)) + 1]]),
                currentMacros |->
                  [calories |-> st.currentMacros.calories + recipe.macros.calories * servingsToAdd,
                   protein  |-> st.currentMacros.protein + recipe.macros.protein * servingsToAdd,
                   carbs    |-> st.currentMacros.carbs + recipe.macros.carbs * servingsToAdd,
                   fat      |-> st.currentMacros.fat + recipe.macros.fat * servingsToAdd],
                currentSlot |-> st.currentSlot + 1,
                currentDay |->
                  IF (st.currentSlot + 1) % Len(mealSlots) = 0
                  THEN st.currentDay + 1 ELSE st.currentDay,
                stopped |-> FALSE]
          ELSE st

greedyProteinFill(rs, dailyTargets) ==
  LET sortedRecipes == sortByProteinDensity(rs)
      F[k \in 0..Len(sortedRecipes)] ==
        IF k = 0
        THEN [selectedRecipes |-> << >>, currentMacros |-> ZeroMacros,
              currentSlot |-> 0, currentDay |-> 0, stopped |-> FALSE]
        ELSE GreedyStep(F[k - 1], sortedRecipes[k], dailyTargets)
      r == F[Len(sortedRecipes)]
  IN [selectedRecipes |-> r.selectedRecipes, currentMacros |-> r.currentMacros]

\* the recipe ids of a list of selections
\* variant of RecipeIdsOf: no recipe counts as used
RecipeIdsOfNone(selectedRecipes) == {}

RecipeIdsOf(selectedRecipes) ==
  {selectedRecipes[k].recipe : k \in 1..Len(selectedRecipes)}

\* servingsNeeded = Math.min(Math.ceil(gap / grams), recipe.availableServings, 2)
\* variant of SnackServings: the cap of the protein-fill stage
SnackServingsCapThree(servingsNeeded, availableServings) ==
  Min2(Min2(servingsNeeded, availableServings), 3)

SnackServings(servingsNeeded, availableServings) ==
  Min2(Min2(servingsNeeded, availableServings), 2)

\* the selection fillRemainingMacros pushes for one macro ("carbs" or "fat"),
\* without its day: a sequence of length 0 or 1
SnackFor(rs, selectedRecipes, currentMacros, dailyTargets, kind) ==
  LET other == IF kind = "carbs" THEN "fat" ELSE "carbs"
      usedRecipeIds == RecipeIdsOf(selectedRecipes)
      Unused(r) == r.id \notin usedRecipeIds /\ r.availableServings > 0
      availableRecipes == SelectSeq(rs, Unused)
      gapNum == Max2(0, daysInWeek * dailyTargets[kind] - currentMacros[kind])
      Rich(r) == r.macros[kind] > r.macros[other]
      richRecipes == SortDescending(SelectSeq(availableRecipes, Rich), kind)
      recipe == richRecipes[1]
      servingsNeeded ==
        SnackServings(Ceil(gapNum, daysInWeek * recipe.macros[kind]),
                      recipe.availableServings)
  IN IF gapNum > 0 /\ Len(richRecipes) > 0 /\ servingsNeeded > 0
     THEN <<[recipe |-> recipe.id, servings |-> servingsNeeded, slot |-> "snack"]>>
     ELSE << >>

\* the values Math.floor(Math.random() * daysInWeek) takes for the pushes of
\* fillRemainingMacros: one draw for each selection pushed
RandomDays(snack) == IF snack = << >> THEN {0} ELSE 0..(daysInWeek - 1)

\* variant of WithDay: the random draw also picks the slot
WithDayAndSlot(snack, day) ==
  [k \in 1..Len(snack) |->
     [recipe |-> snack[k].recipe, servings |-> snack[k].servings,
      day |-> day, slot |-> IF day % 2 = 0 THEN "snack" ELSE "dinner"]]

\* day: Math.floor(Math.random() * daysInWeek), slot: 'snack'
WithDay(snack, day) ==
  [k \in 1..Len(snack) |->
     [recipe |-> snack[k].recipe, servings |-> snack[k].servings,
      day |-> day, slot |-> snack[k].slot]]

\* the array fillRemainingMacros received, after the call: the pushes go to the
\* copy additionalRecipes = [...selectedRecipes]
fillRemainingMacrosArgument(selectedRecipes, additionalRecipes) == selectedRecipes

\* fillRemainingMacros: the selections it received, then the carb-rich and the
\* fat-rich selection
fillRemainingMacros(rs, selectedRecipes, currentMacros, dailyTargets, day1, day2) ==
  selectedRecipes
    \o WithDay(SnackFor(rs, selectedRecipes, currentMacros, dailyTargets, "carbs"), day1)
    \o WithDay(SnackFor(rs, selectedRecipes, currentMacros, dailyTargets, "fat"), day2)

\* weekly sum of one macro over a list of selections
WeeklyOf(rs, selectedRecipes, field) ==
  SumSeq([k \in 1..Len(selectedRecipes) |->
            rs[selectedRecipes[k].recipe].macros[field] * selectedRecipes[k].servings])

\* calorieAccuracy > num / den, where calorieAccuracy is
\* |weekly / 7 - target| / target (Infinity when only the target is 0, NaN when both are)
CalorieDeviationExceeds(weekly, target, num, den) ==
  IF target = 0 THEN weekly # 0
  ELSE Abs(weekly - daysInWeek * target) * den > num * daysInWeek * target

\* variant of ScaledServings: Math.floor in place of Math.round
ScaledServingsFloored(servings, weekly, target) ==
  IF CalorieDeviationExceeds(weekly, target, 15, 100)
  THEN IF CalorieDeviationExceeds(weekly, target, 1, 2)
       THEN Max2(1, (servings * 8) \div 10)
       ELSE Max2(1, (servings * 9) \div 10)
  ELSE servings

\* variant of ScaledServings: scaleFactor 0.5 in place of 0.8
ScaledServingsHalving(servings, weekly, target) ==
  IF CalorieDeviationExceeds(weekly, target, 15, 100)
  THEN IF CalorieDeviationExceeds(weekly, target, 1, 2)
       THEN Max2(1, Round(servings * 5, 10))
       ELSE Max2(1, Round(servings * 9, 10))
  ELSE servings

\* the servings of one selection after the adjustment
ScaledServings(servings, weekly, target) ==
  IF CalorieDeviationExceeds(weekly, target, 15, 100)
  THEN IF CalorieDeviationExceeds(weekly, target, 1, 2)
       THEN Max2(1, Round(servings * 8, 10))
       ELSE Max2(1, Round(servings * 9, 10))
  ELSE servings

\* variant of fineTuneMacrosArgument: the servings are rewritten in place
fineTuneMacrosInPlace(selectedRecipes, adjustedRecipes) == adjustedRecipes

\* the array fineTuneMacros received, after the call: map returns a new array
\* and a rescaled selection is a new object ({...selection, servings})
fineTuneMacrosArgument(selectedRecipes, adjustedRecipes) == selectedRecipes

fineTuneMacros(rs, selectedRecipes, dailyTargets) ==
  LET weekly == WeeklyOf(rs, selectedRecipes, "calories")
  IN [k \in 1..Len(selectedRecipes) |->
        [selectedRecipes[k] EXCEPT
           !.servings = ScaledServings(@, weekly, dailyTargets.calories)]]

\* index of the entry of the Map ingredientNeeds with this key, 0 if none
NeedIndex(needs, key) ==
  LET hits == {k \in 1..Len(needs) : needs[k].ingredientId = key}
  IN IF hits = {} THEN 0 ELSE CHOOSE k \in hits : TRUE

\* the Map after one recipe ingredient of one selection
AddNeed(needs, ingredient, servings, pantryItems) ==
  LET totalNeeded == ingredient.quantity * servings
      key == ingredient.ingredient_id
      at == NeedIndex(needs, key)
      p == PantryFind(pantryItems, key)
  IN IF at # 0
     THEN [needs EXCEPT ![at].needed = @ + totalNeeded]
     ELSE Append(needs, [ingredientId |-> key, needed |-> totalNeeded,
                         available |-> IF p = 0 THEN 0 ELSE pantryItems[p].quantity])

\* the Map ingredientNeeds, in insertion order, after the two nested forEach
RECURSIVE IngredientNeeds(_, _, _, _, _)
IngredientNeeds(rs, selectedRecipes, pantryItems, s, i) ==
  IF s = 0 THEN << >>
  ELSE IF i = 0 THEN
         IngredientNeeds(rs, selectedRecipes, pantryItems, s - 1,
                         IF s = 1 THEN 0
                         ELSE Len(rs[selectedRecipes[s - 1].recipe].recipe_ingredients))
  ELSE AddNeed(IngredientNeeds(rs, selectedRecipes, pantryItems, s, i - 1),
               rs[selectedRecipes[s].recipe].recipe_ingredients[i],
               selectedRecipes[s].servings, pantryItems)

\* variant of Missing: an exactly sufficient pantry is reported too
MissingOrExact(need) == need.needed >= need.available

\* if (need.needed > need.available)
Missing(need) == need.needed > need.available

ShortfallEntry(need) ==
  [ingredientId |-> need.ingredientId,
   neededQuantity |-> need.needed - need.available,
   availableQuantity |-> need.available]

calculateMissingIngredients(rs, selectedRecipes, pantryItems) ==
  LET n == Len(selectedRecipes)
      needs == IngredientNeeds(rs, selectedRecipes, pantryItems, n,
                 IF n = 0 THEN 0 ELSE Len(rs[selectedRecipes[n].recipe].recipe_ingredients))
      missing == SelectSeq(needs, Missing)
  IN [k \in 1..Len(missing) |-> ShortfallEntry(missing[k])]

\* variant of AccuracyOf: the percentage is clamped at 0
AccuracyOfClamped(weekly, target) ==
  IF target = 0
  THEN [kind |-> IF weekly = 0 THEN "NaN" ELSE "-Infinity", value |-> 0]
  ELSE [kind |-> "finite",
        value |-> Max2(0, Round(100 * (7 * target - Abs(weekly - 7 * target)), 7 * target))]

\* one field of macroAccuracy:
\* Math.round((1 - Math.abs(weekly / 7 - target) / target) * 100);
\* with target 0 the quotient is Infinity (weekly > 0) or NaN (weekly = 0)
AccuracyOf(weekly, target) ==
  IF target = 0
  THEN [kind |-> IF weekly = 0 THEN "NaN" ELSE "-Infinity", value |-> 0]
  ELSE [kind |-> "finite",
        value |-> Round(100 * (7 * target - Abs(weekly - 7 * target)), 7 * target)]

MacroAccuracyOf(rs, selectedRecipes, dailyTargets) ==
  [calories |-> AccuracyOf(WeeklyOf(rs, selectedRecipes, "calories"), dailyTargets.calories),
   protein  |-> AccuracyOf(WeeklyOf(rs, selectedRecipes, "protein"), dailyTargets.protein),
   carbs    |-> AccuracyOf(WeeklyOf(rs, selectedRecipes, "carbs"), dailyTargets.carbs),
   fat      |-> AccuracyOf(WeeklyOf(rs, selectedRecipes, "fat"), dailyTargets.fat)]

\* --------------------------------------------------------------- the state
VARIABLES
  userProfile,          \* users row of userId
  recipes,              \* recipes with recipe_ingredients
  pantryItems,          \* pantry_items of userId
  meal_plans,           \* meal_plans rows of (userId, weekStart)
  meals,                \* meals rows
  pc,                   \* position of the invocation of generatePlan
  dailyTargets,
  recipesWithMacros,
  proteinFilledRecipes,
  currentMacros,
  filledRecipes,
  finalRecipes,
  missingIngredients,
  mealPlan,             \* the inserted meal_plans row
  mealsOut,             \* const meals: Meal[]
  mealCursor,           \* selections of finalRecipes the insert loop has passed
  result,               \* the OptimizationResult returned
  thrown,               \* the error the invocation rejected with, "none" so far
  invocations,          \* local state of each of two concurrent invocations
  timers                \* const [timers, setTimers] = useState<Timer[]>([]) of useTimer

vars == <<userProfile, recipes, pantryItems, meal_plans, meals, pc, dailyTargets,
          recipesWithMacros, proteinFilledRecipes, currentMacros, filledRecipes,
          finalRecipes, missingIngredients, mealPlan, mealsOut, mealCursor, result,
          thrown, invocations, timers>>

inputs == <<userProfile, recipes, pantryItems>>

\* state of the other components: no step of a single generatePlan touches it
elsewhere == <<invocations, timers>>

stages == <<dailyTargets, recipesWithMacros, proteinFilledRecipes, currentMacros,
            filledRecipes, finalRecipes, missingIngredients>>

\* the plan a previous generation stored for the same user and week
OldPlan ==
  [id |-> 1, total_kcal |-> 0, total_protein |-> 0, total_carbs |-> 0, total_fat |-> 0]

OldMeal ==
  [id |-> 1, meal_plan_id |-> 1, recipe_id |-> 1, servings |-> 1,
   day_of_week |-> 0, meal_slot |-> "breakfast"]

Init ==
  /\ userProfile \in Targets
  /\ recipes \in RecipeLists
  /\ pantryItems \in Pantries
  /\ meal_plans = {OldPlan}
  /\ meals = {OldMeal}
  /\ pc = "start"
  /\ dailyTargets = Null
  /\ recipesWithMacros = << >>
  /\ proteinFilledRecipes = << >>
  /\ currentMacros = ZeroMacros
  /\ filledRecipes = << >>
  /\ finalRecipes = << >>
  /\ missingIngredients = << >>
  /\ mealPlan = Null
  /\ mealsOut = << >>
  /\ mealCursor = 0
  /\ result = Null
  /\ thrown = "none"
  /\ invocations = << >>
  /\ timers = << >>

\* -------------------------------------------------------------- the steps
\* a fetch fails: throw new Error(...), rethrown by the catch
FetchFails ==
  /\ pc = "start"
  /\ pc' = "failed"
  /\ thrown' \in {"User profile not found", "Failed to fetch pantry items",
                 "Failed to fetch recipes"}
  /\ UNCHANGED <<inputs, elsewhere, meal_plans, meals, stages, mealPlan, mealsOut, mealCursor, result>>

\* step 2 throws: the TypeError of calculateRecipeMacros, rethrown by the catch
ComputeThrows ==
  /\ pc = "start"
  /\ ProcessRecipesThrows(recipes)
  /\ pc' = "failed"
  /\ thrown' = "TypeError"
  /\ UNCHANGED <<inputs, elsewhere, meal_plans, meals, stages, mealPlan, mealsOut, mealCursor, result>>

\* steps 1 to 6: the synchronous block between the fetches and the delete
Compute ==
  /\ pc = "start"
  /\ ~ProcessRecipesThrows(recipes)
  /\ LET dt == DailyTargetsOf(userProfile)
         rwm == ProcessRecipes(recipes, pantryItems)
         g == greedyProteinFill(rwm, dt)
     IN \E day1 \in RandomDays(SnackFor(rwm, g.selectedRecipes, g.currentMacros, dt, "carbs")),
           day2 \in RandomDays(SnackFor(rwm, g.selectedRecipes, g.currentMacros, dt, "fat")) :
          LET filled == fillRemainingMacros(rwm, g.selectedRecipes, g.currentMacros,
                                            dt, day1, day2)
              final == fineTuneMacros(rwm, filled, dt)
          IN /\ dailyTargets' = dt
             /\ recipesWithMacros' = sortByProteinDensityArgument(rwm)
             /\ proteinFilledRecipes' = fillRemainingMacrosArgument(g.selectedRecipes, filled)
             /\ currentMacros' = g.currentMacros
             /\ filledRecipes' = fineTuneMacrosArgument(filled, final)
             /\ finalRecipes' = final
             /\ missingIngredients' = calculateMissingIngredients(rwm, final, pantryItems)
  /\ pc' = "delete"
  /\ UNCHANGED <<inputs, elsewhere, thrown, meal_plans, meals, mealPlan, mealsOut, mealCursor, result>>

\* step 7: delete the existing plan; its meals go with it (on delete cascade)
DeleteExisting ==
  /\ pc = "delete"
  /\ meal_plans' = {}
  /\ meals' = {m \in meals : \E p \in meal_plans' : p.id = m.meal_plan_id}
  /\ pc' = "insertPlan"
  /\ UNCHANGED <<inputs, elsewhere, thrown, stages, mealPlan, mealsOut, mealCursor, result>>

\* deleteError: console.warn and carry on
DeleteFails ==
  /\ pc = "delete"
  /\ pc' = "insertPlan"
  /\ UNCHANGED <<inputs, elsewhere, thrown, meal_plans, meals, stages, mealPlan, mealsOut, mealCursor, result>>

\* the meal_plans row the insert sends
NewPlan ==
  [id |-> 2,
   total_kcal |-> Round(currentMacros.calories, 1),
   total_protein |-> Round(currentMacros.protein, 1),
   total_carbs |-> Round(currentMacros.carbs, 1),
   total_fat |-> Round(currentMacros.fat, 1)]

InsertPlan ==
  /\ pc = "insertPlan"
  /\ meal_plans = {}                       \* unique(user_id, week_start)
  /\ meal_plans' = meal_plans \cup {NewPlan}
  /\ mealPlan' = NewPlan
  /\ pc' = "insertMeals"
  /\ UNCHANGED <<inputs, elsewhere, thrown, meals, stages, mealsOut, mealCursor, result>>

\* planError: throw new Error('Failed to create meal plan: ...')
InsertPlanFails ==
  /\ pc = "insertPlan"
  /\ pc' = "failed"
  /\ thrown' = "Failed to create meal plan"
  /\ UNCHANGED <<inputs, elsewhere, meal_plans, meals, stages, mealPlan, mealsOut, mealCursor, result>>

\* the meals row the loop inserts for selection k of finalRecipes
NewMeal(k) ==
  [id |-> k + 1,
   meal_plan_id |-> mealPlan.id,
   recipe_id |-> finalRecipes[k].recipe,
   servings |-> finalRecipes[k].servings,
   day_of_week |-> finalRecipes[k].day,
   meal_slot |-> finalRecipes[k].slot]

\* step 8, one pass of the loop: the insert succeeds and the row is pushed
InsertMeal ==
  /\ pc = "insertMeals"
  /\ mealCursor < Len(finalRecipes)
  /\ \E p \in meal_plans : p.id = mealPlan.id     \* references meal_plans(id)
  /\ meals' = meals \cup {NewMeal(mealCursor + 1)}
  /\ mealsOut' = Append(mealsOut, NewMeal(mealCursor + 1))
  /\ mealCursor' = mealCursor + 1
  /\ UNCHANGED <<inputs, elsewhere, thrown, meal_plans, pc, stages, mealPlan, result>>

\* step 8, one pass of the loop: mealError, console.error and continue
InsertMealFails ==
  /\ pc = "insertMeals"
  /\ mealCursor < Len(finalRecipes)
  /\ mealCursor' = mealCursor + 1
  /\ UNCHANGED <<inputs, elsewhere, thrown, meal_plans, meals, pc, stages, mealPlan, mealsOut, result>>

\* step 9 and the return
Return ==
  /\ pc = "insertMeals"
  /\ mealCursor = Len(finalRecipes)
  /\ result' = [mealPlan |-> mealPlan,
                meals |-> mealsOut,
                missingIngredients |-> missingIngredients,
                macroAccuracy |-> MacroAccuracyOf(recipesWithMacros, finalRecipes, dailyTargets)]
  /\ pc' = "done"
  /\ UNCHANGED <<inputs, elsewhere, thrown, meal_plans, meals, stages, mealPlan, mealsOut, mealCursor>>

Next ==
  \/ FetchFails
  \/ ComputeThrows
  \/ Compute
  \/ DeleteExisting
  \/ DeleteFails
  \/ InsertPlan
  \/ InsertPlanFails
  \/ InsertMeal
  \/ InsertMealFails
  \/ Return

Spec == Init /\ [][Next]_vars

\* ------------------------------------------- the assignment stages on their own
\* greedyProteinFill, fillRemainingMacros and fineTuneMacros applied to resolved
\* recipes (RecipeWithMacros) and daily targets (MacroProfile) given directly

\* macros and availableServings of the resolved recipes
ResolvedKinds ==
  { [calories |-> 400, protein |-> 40, carbs |-> 30, fat |-> 10, availableServings |-> 10],
    [calories |-> 165, protein |-> 23, carbs |-> 0,  fat |-> 4,  availableServings |-> 2],
    [calories |-> 111, protein |-> 3,  carbs |-> 23, fat |-> 1,  availableServings |-> 4],
    [calories |-> 165, protein |-> 23, carbs |-> 0,  fat |-> 4,  availableServings |-> 0],
    [calories |-> 120, protein |-> 0,  carbs |-> 0,  fat |-> 14, availableServings |-> 1] }

ResolvedRecipe(i, kind) ==
  LET macros == [calories |-> kind.calories, protein |-> kind.protein,
                 carbs |-> kind.carbs, fat |-> kind.fat]
  IN [id |-> i,
      recipe_ingredients |-> << >>,
      macros |-> macros,
      proteinDensity |-> ProteinDensityOf(macros),
      availableServings |-> kind.availableServings]

ResolvedLists ==
  UNION { { [i \in 1..n |-> ResolvedRecipe(i, f[i])] : f \in [1..n -> ResolvedKinds] } :
            n \in 0..MaxFillRecipes }

\* daily targets
FillTargets ==
  { [calories |-> 2000, protein |-> 150, carbs |-> 200, fat |-> 67],
    [calories |-> 59,   protein |-> 4,   carbs |-> 6,   fat |-> 1],
    [calories |-> 300,  protein |-> 8,   carbs |-> 60,  fat |-> 15] }

InitFill ==
  /\ userProfile = Null
  /\ recipes = << >>
  /\ pantryItems = << >>
  /\ meal_plans = {}
  /\ meals = {}
  /\ pc = "protein"
  /\ dailyTargets \in FillTargets
  /\ recipesWithMacros \in ResolvedLists
  /\ proteinFilledRecipes = << >>
  /\ currentMacros = ZeroMacros
  /\ filledRecipes = << >>
  /\ finalRecipes = << >>
  /\ missingIngredients = << >>
  /\ mealPlan = Null
  /\ mealsOut = << >>
  /\ mealCursor = 0
  /\ result = Null
  /\ thrown = "none"
  /\ invocations = << >>
  /\ timers = << >>

\* the rest of the state, which the stages do not touch
aside == <<inputs, elsewhere, thrown, meal_plans, meals, missingIngredients, mealPlan, mealsOut,
           mealCursor, result, dailyTargets>>

FillProtein ==
  /\ pc = "protein"
  /\ LET g == greedyProteinFill(recipesWithMacros, dailyTargets)
     IN /\ proteinFilledRecipes' = g.selectedRecipes
        /\ currentMacros' = g.currentMacros
  /\ recipesWithMacros' = sortByProteinDensityArgument(recipesWithMacros)
  /\ pc' = "gaps"
  /\ UNCHANGED <<aside, filledRecipes, finalRecipes>>

FillGaps ==
  /\ pc = "gaps"
  /\ \E day1 \in RandomDays(SnackFor(recipesWithMacros, proteinFilledRecipes,
                                       currentMacros, dailyTargets, "carbs")),
        day2 \in RandomDays(SnackFor(recipesWithMacros, proteinFilledRecipes,
                                       currentMacros, dailyTargets, "fat")) :
       LET filled == fillRemainingMacros(recipesWithMacros, proteinFilledRecipes,
                                         currentMacros, dailyTargets, day1, day2)
       IN /\ filledRecipes' = filled
          /\ proteinFilledRecipes' = fillRemainingMacrosArgument(proteinFilledRecipes, filled)
  /\ pc' = "tune"
  /\ UNCHANGED <<aside, recipesWithMacros, currentMacros, finalRecipes>>

FineTune ==
  /\ pc = "tune"
  /\ LET final == fineTuneMacros(recipesWithMacros, filledRecipes, dailyTargets)
     IN /\ finalRecipes' = final
        /\ filledRecipes' = fineTuneMacrosArgument(filledRecipes, final)
  /\ pc' = "tuned"
  /\ UNCHANGED <<aside, recipesWithMacros, proteinFilledRecipes, currentMacros>>

NextFill == FillProtein \/ FillGaps \/ FineTune

SpecFill == InitFill /\ [][NextFill]_vars

\* ------------------------------------- two invocations for one user and week
\* steps 7 and 8 of generatePlan run by two invocations at once on the shared
\* tables meal_plans and meals; each invocation has computed its assignments

\* the two invocations
Invocations == {1, 2}

\* assignments the insert loop of an invocation passes
PlanOf(n) ==
  [k \in 1..n |-> [recipe |-> k, servings |-> 1, day |-> 0, slot |-> mealSlots[k]]]

\* the meal_plans row invocation c inserts; id is gen_random_uuid()
NewPlanOf(c) == [NewPlan EXCEPT !.id = c + 1]

\* the meals row invocation c inserts for selection k; id is gen_random_uuid()
NewMealOf(c, k) ==
  [id |-> 10 * c + k,
   meal_plan_id |-> invocations[c].mealPlan.id,
   recipe_id |-> finalRecipes[k].recipe,
   servings |-> finalRecipes[k].servings,
   day_of_week |-> finalRecipes[k].day,
   meal_slot |-> finalRecipes[k].slot]

InitConcurrent ==
  /\ userProfile = Null
  /\ recipes = << >>
  /\ pantryItems = << >>
  /\ meal_plans = {OldPlan}
  /\ meals = {OldMeal}
  /\ pc = "none"
  /\ dailyTargets = Null
  /\ recipesWithMacros = << >>
  /\ proteinFilledRecipes = << >>
  /\ currentMacros = ZeroMacros
  /\ filledRecipes = << >>
  /\ finalRecipes \in {PlanOf(n) : n \in 1..MaxMeals}
  /\ missingIngredients = << >>
  /\ mealPlan = Null
  /\ mealsOut = << >>
  /\ mealCursor = 0
  /\ result = Null
  /\ thrown = "none"
  /\ invocations = [c \in Invocations |->
                      [pc |-> "delete", mealPlan |-> Null, meals |-> << >>,
                       mealCursor |-> 0, result |-> Null]]
  /\ timers = << >>

\* the state of the single invocation and of the timers
single == <<inputs, pc, stages, mealPlan, mealsOut, mealCursor, result, thrown, timers>>

\* step 7, delete ... eq(user_id).eq(week_start): the rows of the week go,
\* and with them their meals (on delete cascade)
DeleteExistingBy(c) ==
  /\ invocations[c].pc = "delete"
  /\ meal_plans' = {}
  /\ meals' = {m \in meals : \E p \in meal_plans' : p.id = m.meal_plan_id}
  /\ invocations' = [invocations EXCEPT ![c].pc = "insertPlan"]
  /\ UNCHANGED single

\* deleteError: console.warn and carry on
DeleteFailsBy(c) ==
  /\ invocations[c].pc = "delete"
  /\ invocations' = [invocations EXCEPT ![c].pc = "insertPlan"]
  /\ UNCHANGED <<single, meal_plans, meals>>

\* step 7, insert into meal_plans; unique(user_id, week_start)
InsertPlanBy(c) ==
  /\ invocations[c].pc = "insertPlan"
  /\ meal_plans = {}
  /\ meal_plans' = meal_plans \cup {NewPlanOf(c)}
  /\ invocations' = [invocations EXCEPT ![c].pc = "insertMeals",
                                        ![c].mealPlan = NewPlanOf(c)]
  /\ UNCHANGED <<single, meals>>

\* planError: throw new Error('Failed to create meal plan: ...')
InsertPlanFailsBy(c) ==
  /\ invocations[c].pc = "insertPlan"
  /\ invocations' = [invocations EXCEPT ![c].pc = "failed"]
  /\ UNCHANGED <<single, meal_plans, meals>>

\* step 8, one pass of the loop: the row is inserted and pushed to meals
InsertMealBy(c) ==
  /\ invocations[c].pc = "insertMeals"
  /\ invocations[c].mealCursor < Len(finalRecipes)
  /\ \E p \in meal_plans : p.id = invocations[c].mealPlan.id   \* references meal_plans(id)
  /\ LET meal == NewMealOf(c, invocations[c].mealCursor + 1)
     IN /\ meals' = meals \cup {meal}
        /\ invocations' = [invocations EXCEPT ![c].meals = Append(@, meal),
                                              ![c].mealCursor = @ + 1]
  /\ UNCHANGED <<single, meal_plans>>

\* step 8, one pass of the loop: mealError, console.error and continue
InsertMealFailsBy(c) ==
  /\ invocations[c].pc = "insertMeals"
  /\ invocations[c].mealCursor < Len(finalRecipes)
  /\ invocations' = [invocations EXCEPT ![c].mealCursor = @ + 1]
  /\ UNCHANGED <<single, meal_plans, meals>>

\* the return of { mealPlan, meals, ... }
ReturnBy(c) ==
  /\ invocations[c].pc = "insertMeals"
  /\ invocations[c].mealCursor = Len(finalRecipes)
  /\ invocations' = [invocations EXCEPT
                       ![c].pc = "done",
                       ![c].result = [mealPlan |-> invocations[c].mealPlan,
                                      meals |-> invocations[c].meals]]
  /\ UNCHANGED <<single, meal_plans, meals>>

NextConcurrent ==
  \E c \in Invocations :
     \/ DeleteExistingBy(c)
     \/ DeleteFailsBy(c)
     \/ InsertPlanBy(c)
     \/ InsertPlanFailsBy(c)
     \/ InsertMealBy(c)
     \/ InsertMealFailsBy(c)
     \/ ReturnBy(c)

SpecConcurrent == InitConcurrent /\ [][NextConcurrent]_vars

\* ------------------------------------------------- cooking timers (useTimer)
\* ids createTimer may draw
TimerIds == 1..MaxTimers

\* durations in seconds a timer is created with
Durations == {1, 2}

IdsOf(ts) == {ts[k].id : k \in 1..Len(ts)}

\* the callback of setInterval applied to one timer
TickTimer(timer) ==
  IF ~timer.isActive \/ timer.isCompleted THEN timer
  ELSE LET newRemaining == Max2(0, timer.remaining - 1)
           justCompleted == newRemaining = 0 /\ timer.remaining > 0
       IN IF justCompleted
          THEN [timer EXCEPT !.remaining = 0, !.isActive = FALSE, !.isCompleted = TRUE]
          ELSE [timer EXCEPT !.remaining = newRemaining]

InitTimer ==
  /\ userProfile = Null
  /\ recipes = << >>
  /\ pantryItems = << >>
  /\ meal_plans = {}
  /\ meals = {}
  /\ pc = "none"
  /\ dailyTargets = Null
  /\ recipesWithMacros = << >>
  /\ proteinFilledRecipes = << >>
  /\ currentMacros = ZeroMacros
  /\ filledRecipes = << >>
  /\ finalRecipes = << >>
  /\ missingIngredients = << >>
  /\ mealPlan = Null
  /\ mealsOut = << >>
  /\ mealCursor = 0
  /\ result = Null
  /\ thrown = "none"
  /\ invocations = << >>
  /\ timers = << >>

\* everything but the timers
planning == <<inputs, meal_plans, meals, pc, stages, mealPlan, mealsOut, mealCursor,
              result, thrown, invocations>>

\* the interval fires: setTimers(prevTimers => prevTimers.map(...))
Tick ==
  /\ timers' = [k \in 1..Len(timers) |-> TickTimer(timers[k])]
  /\ UNCHANGED planning

createTimer ==
  /\ Len(timers) < MaxTimers
  /\ \E id \in TimerIds \ IdsOf(timers), duration \in Durations :
       timers' = Append(timers, [id |-> id, duration |-> duration, remaining |-> duration,
                                 isActive |-> FALSE, isCompleted |-> FALSE])
  /\ UNCHANGED planning

startTimer ==
  /\ \E id \in TimerIds :
       timers' = [k \in 1..Len(timers) |->
                    IF timers[k].id = id
                    THEN [timers[k] EXCEPT !.isActive = TRUE, !.isCompleted = FALSE]
                    ELSE timers[k]]
  /\ UNCHANGED planning

pauseTimer ==
  /\ \E id \in TimerIds :
       timers' = [k \in 1..Len(timers) |->
                    IF timers[k].id = id
                    THEN [timers[k] EXCEPT !.isActive = FALSE]
                    ELSE timers[k]]
  /\ UNCHANGED planning

resumeTimer ==
  /\ \E id \in TimerIds :
       timers' = [k \in 1..Len(timers) |->
                    IF timers[k].id = id
                    THEN [timers[k] EXCEPT !.isActive = TRUE, !.isCompleted = FALSE]
                    ELSE timers[k]]
  /\ UNCHANGED planning

resetTimer ==
  /\ \E id \in TimerIds :
       timers' = [k \in 1..Len(timers) |->
                    IF timers[k].id = id
                    THEN [timers[k] EXCEPT !.remaining = timers[k].duration,
                                           !.isActive = FALSE, !.isCompleted = FALSE]
                    ELSE timers[k]]
  /\ UNCHANGED planning

removeTimer ==
  /\ \E id \in TimerIds :
       LET keep(timer) == timer.id # id
       IN timers' = SelectSeq(timers, keep)
  /\ UNCHANGED planning

clearCompletedTimers ==
  /\ LET keep(timer) == ~timer.isCompleted
     IN timers' = SelectSeq(timers, keep)
  /\ UNCHANGED planning

NextTimer ==
  \/ Tick
  \/ createTimer
  \/ startTimer
  \/ pauseTimer
  \/ resumeTimer
  \/ resetTimer
  \/ removeTimer
  \/ clearCompletedTimers

\* setInterval(..., 1000) keeps firing while the hook is mounted
SpecTimer == InitTimer /\ [][NextTimer]_vars /\ WF_vars(Tick)

\* ------------------------------------------------------------- properties
\* the stages have just produced their results; no later step changes them
StagesDone == pc = "delete"

IngredientSet == {Ingredients[i] : i \in 1..Len(Ingredients)}

\* quantity of an ingredient one serving of a recipe requires, 0 if none
QuantityIn(recipe, ing) ==
  LET ri == recipe.recipe_ingredients
      hits == {k \in 1..Len(ri) : ri[k].ingredient_id = ing}
  IN IF hits = {} THEN 0 ELSE ri[CHOOSE k \in hits : TRUE].quantity

\* quantity of an ingredient in the pantry, 0 when the pantry has no entry
OnHand(ing) ==
  LET hits == {k \in 1..Len(pantryItems) : pantryItems[k].ingredient_id = ing}
  IN IF hits = {} THEN 0 ELSE pantryItems[CHOOSE k \in hits : TRUE].quantity

InPantry(ing) == \E k \in 1..Len(pantryItems) : pantryItems[k].ingredient_id = ing

\* total quantity of an ingredient the final plan requires
RequiredOf(ing) ==
  SumSeq([k \in 1..Len(finalRecipes) |->
            finalRecipes[k].servings
              * QuantityIn(recipesWithMacros[finalRecipes[k].recipe], ing)])

EntriesOf(ing) ==
  {k \in 1..Len(missingIngredients) : missingIngredients[k].ingredientId = ing}

\* C1: the shortfall report has exactly one entry for each ingredient whose
\* total required quantity over the final assignments strictly exceeds the
\* pantry quantity (0 without a pantry entry), no entry for any other
\* ingredient, and each neededQuantity is required minus available.
C1_ShortfallEqualsReference ==
  StagesDone =>
  /\ \A k \in 1..Len(missingIngredients) :
       missingIngredients[k].ingredientId \in IngredientSet
  /\ \A ing \in IngredientSet :
       IF RequiredOf(ing) > OnHand(ing)
       THEN /\ Cardinality(EntriesOf(ing)) = 1
            /\ \A k \in EntriesOf(ing) :
                 /\ missingIngredients[k].neededQuantity = RequiredOf(ing) - OnHand(ing)
                 /\ missingIngredients[k].availableQuantity = OnHand(ing)
       ELSE EntriesOf(ing) = {}

\* a plan in which two assignments draw on one ingredient that falls short
C1_Witness ==
  /\ pc = "delete"
  /\ \E ing \in IngredientSet :
       /\ RequiredOf(ing) > OnHand(ing)
       /\ Cardinality({k \in 1..Len(finalRecipes) :
            QuantityIn(recipesWithMacros[finalRecipes[k].recipe], ing) > 0}) >= 2

\* the servings the pantry allows: the least quotient over the requirements
ReferenceServings(recipe) ==
  LET ri == recipe.recipe_ingredients
      quotients == {OnHand(ri[k].ingredient_id) \div ri[k].quantity : k \in 1..Len(ri)}
  IN IF \E k \in 1..Len(ri) : ~InPantry(ri[k].ingredient_id) THEN 0
     ELSE CHOOSE m \in quotients : \A n \in quotients : m <= n

\* C2: for a recipe with at least one requirement, availableServings is the
\* minimum over the requirements of floor(pantry quantity / required quantity),
\* 0 if a required ingredient has no pantry entry; hence availableServings x
\* required quantity <= pantry quantity for every required ingredient.
C2_AvailabilityIsMinFloor ==
  StagesDone =>
  \A i \in 1..Len(recipesWithMacros) :
    LET r == recipesWithMacros[i]
        ri == r.recipe_ingredients
    IN Len(ri) >= 1 =>
         /\ r.availableServings = ReferenceServings(r)
         /\ \A k \in 1..Len(ri) :
              r.availableServings * ri[k].quantity <= OnHand(ri[k].ingredient_id)

\* a recipe with two requirements that the pantry limits differently
C2_Witness ==
  /\ pc = "delete"
  /\ \E i \in 1..Len(recipesWithMacros) :
       LET r == recipesWithMacros[i]
           ri == r.recipe_ingredients
       IN /\ Len(ri) = 2
          /\ r.availableServings >= 1
          /\ OnHand(ri[1].ingredient_id) \div ri[1].quantity
               # OnHand(ri[2].ingredient_id) \div ri[2].quantity

AllSlots == {"breakfast", "lunch", "dinner", "snack"}

\* C3: every assignment of the final plan has 1 <= servings <=
\* min(3, availableServings of its recipe), a day in 0..6 and one of the four
\* meal slots.
C3_AssignmentDomain ==
  StagesDone =>
  \A k \in 1..Len(finalRecipes) :
    /\ finalRecipes[k].servings \in
         1..Min2(3, recipesWithMacros[finalRecipes[k].recipe].availableServings)
    /\ finalRecipes[k].day \in 0..6
    /\ finalRecipes[k].slot \in AllSlots

\* a final plan with an assignment that the pantry, not the cap, limits, and a snack
C3_Witness ==
  /\ pc = "delete"
  /\ \E k \in 1..Len(finalRecipes) :
       /\ finalRecipes[k].servings
            = recipesWithMacros[finalRecipes[k].recipe].availableServings
       /\ finalRecipes[k].servings < 3
  /\ \E k \in 1..Len(finalRecipes) : finalRecipes[k].slot = "snack"

\* one serving of the recipe needs more of some ingredient than the pantry holds
Starved(recipe) ==
  \E k \in 1..Len(recipe.recipe_ingredients) :
    OnHand(recipe.recipe_ingredients[k].ingredient_id)
      < recipe.recipe_ingredients[k].quantity

\* C4: a recipe whose availableServings is 0 (the pantry holds less of an
\* ingredient than one serving needs) is in no assignment of the final plan,
\* and an ingredient required only by such recipes is never reported missing.
C4_ZeroAvailabilityExcluded ==
  StagesDone =>
  /\ \A i \in 1..Len(recipesWithMacros) :
       /\ Starved(recipesWithMacros[i]) => recipesWithMacros[i].availableServings = 0
       /\ recipesWithMacros[i].availableServings = 0
            => recipesWithMacros[i].id \notin RecipeIdsOf(finalRecipes)
  /\ \A ing \in IngredientSet :
       (\A i \in 1..Len(recipesWithMacros) :
          QuantityIn(recipesWithMacros[i], ing) > 0
            => recipesWithMacros[i].availableServings = 0)
       => EntriesOf(ing) = {}

\* a starved recipe next to a recipe that is assigned, with an ingredient of its own
C4_Witness ==
  /\ pc = "delete"
  /\ Len(finalRecipes) > 0
  /\ \E i \in 1..Len(recipesWithMacros), ing \in IngredientSet :
       /\ Starved(recipesWithMacros[i])
       /\ InPantry(ing)
       /\ QuantityIn(recipesWithMacros[i], ing) > OnHand(ing)
       /\ \A j \in 1..Len(recipesWithMacros) :
            j # i => QuantityIn(recipesWithMacros[j], ing) = 0

\* protein of the first n assignments of the protein-fill stage
ProteinOfPrefix(n) ==
  SumSeq([k \in 1..n |->
            recipesWithMacros[proteinFilledRecipes[k].recipe].macros.protein
              * proteinFilledRecipes[k].servings])

\* servings of one recipe the protein-fill stage emitted
ServingsEmittedOf(id) ==
  SumSeq([k \in 1..Len(proteinFilledRecipes) |->
            IF proteinFilledRecipes[k].recipe = id
            THEN proteinFilledRecipes[k].servings ELSE 0])

\* C5: the protein-fill stage emits at most 3 servings of any recipe, emits no
\* assignment once the accumulated daily protein average (weekly / 7) has
\* reached the daily protein target, and ends with the gap closed or with
\* every available recipe visited.
C5_GreedyTermination ==
  StagesDone =>
  /\ \A i \in 1..Len(recipesWithMacros) : ServingsEmittedOf(recipesWithMacros[i].id) <= 3
  /\ \A k \in 1..Len(proteinFilledRecipes) :
       ProteinOfPrefix(k - 1) < daysInWeek * dailyTargets.protein
  /\ \/ ProteinOfPrefix(Len(proteinFilledRecipes)) >= daysInWeek * dailyTargets.protein
     \/ \A i \in 1..Len(recipesWithMacros) :
          recipesWithMacros[i].availableServings > 0
            => recipesWithMacros[i].id \in RecipeIdsOf(proteinFilledRecipes)

\* the stage stopped on a closed gap and left an available recipe unvisited
C5_Witness ==
  /\ pc = "delete"
  /\ Len(proteinFilledRecipes) > 0
  /\ ProteinOfPrefix(Len(proteinFilledRecipes)) >= daysInWeek * dailyTargets.protein
  /\ \E i \in 1..Len(recipesWithMacros) :
       /\ recipesWithMacros[i].availableServings > 0
       /\ recipesWithMacros[i].id \notin RecipeIdsOf(proteinFilledRecipes)

\* nutrition field of the catalogue behind a macro
CatalogueField(field) == IF field = "calories" THEN "kcal" ELSE field

MacroFields == {"calories", "protein", "carbs", "fat"}

\* sum over the ingredients of per-100 value x quantity, in hundredths of hundredths
ExactTotal(recipe, field) ==
  SumSeq([i \in 1..Len(Ingredients) |->
            Catalogue[Ingredients[i]][CatalogueField(field)]
              * QuantityIn(recipe, Ingredients[i])])

\* the recipe with every quantity multiplied by k
Scaled(recipe, k) ==
  [id |-> recipe.id,
   recipe_ingredients |->
     [j \in 1..Len(recipe.recipe_ingredients) |->
        [recipe.recipe_ingredients[j] EXCEPT !.quantity = k * @]]]

\* C6: each resolved macro of a recipe is the sum over its requirements of
\* per-100 value x quantity / 100 rounded to the nearest whole unit (ties up),
\* and multiplying all quantities by k multiplies it by k up to the rounding
\* of the two results, (k + 1) / 2.
C6_NutritionAdditivity ==
  StagesDone =>
  \A i \in 1..Len(recipesWithMacros) :
    LET r == recipesWithMacros[i]
        unit == 100 * NutritionScale
    IN /\ \A field \in MacroFields :
            LET exact == ExactTotal(r, field)
            IN /\ 2 * (r.macros[field] * unit - exact) <= unit
               /\ 2 * (r.macros[field] * unit - exact) > -unit
       /\ \A k \in 1..MaxScale :
            LET scaled == calculateRecipeMacros(Scaled(r, k))
            IN \A field \in MacroFields :
                 2 * Abs(scaled[field] - k * r.macros[field]) <= k + 1

\* a recipe of two ingredients whose protein is rounded, and whose doubled
\* quantities do not double it
C6_Witness ==
  /\ pc = "delete"
  /\ \E i \in 1..Len(recipesWithMacros) :
       LET r == recipesWithMacros[i]
       IN /\ Len(r.recipe_ingredients) = 2
          /\ ExactTotal(r, "protein") % (100 * NutritionScale) # 0
          /\ calculateRecipeMacros(Scaled(r, 2)).protein # 2 * r.macros.protein

\* weekly sum of one macro over the final plan
FinalWeekly(field) == WeeklyOf(recipesWithMacros, finalRecipes, field)

\* C7: the weekly totals reported for a generated plan equal the sum over all
\* assignments of the final plan (gap-filler assignments included, after
\* fine-tuning) of servings x the recipe's per-serving macro.
C7_TotalsOfFinalPlan ==
  pc = "done" =>
    /\ result.mealPlan.total_kcal = FinalWeekly("calories")
    /\ result.mealPlan.total_protein = FinalWeekly("protein")
    /\ result.mealPlan.total_carbs = FinalWeekly("carbs")
    /\ result.mealPlan.total_fat = FinalWeekly("fat")

\* the energy target is positive and every percentage is in 0..100
ValidTarget(u) ==
  /\ u.kcal_target > 0
  /\ u.protein_pct \in 0..100
  /\ u.carb_pct \in 0..100
  /\ u.fat_pct \in 0..100

\* C8 as claimed: macroAccuracy.calories is 100 exactly when the actual
\* daily-average calories equal the target, and is negative whenever the
\* actual daily average exceeds twice the target.
C8_AccuracyBoundaryAsClaimed ==
  (pc = "done" /\ ValidTarget(userProfile)) =>
    /\ result.macroAccuracy.calories.value = 100
         <=> FinalWeekly("calories") = 7 * dailyTargets.calories
    /\ FinalWeekly("calories") > 2 * 7 * dailyTargets.calories
         => result.macroAccuracy.calories.value < 0

\* C8: macroAccuracy.calories is the nearest integer (ties up) to
\* (1 - |actual - target| / target) x 100, unclamped: it is 100 when the actual
\* daily-average calories equal the target, and only when they are within 0.5%
\* of it; it is at most 0 whenever the actual exceeds twice the target and
\* negative whenever the actual exceeds 2.005 times the target.
C8_AccuracyBoundary ==
  (pc = "done" /\ ValidTarget(userProfile)) =>
    LET v == result.macroAccuracy.calories.value
        W == FinalWeekly("calories")
        D == 7 * dailyTargets.calories
        N == 100 * (D - Abs(W - D))
    IN /\ result.macroAccuracy.calories.kind = "finite"
       /\ 2 * (v * D - N) <= D
       /\ 2 * (v * D - N) > -D
       /\ W = D => v = 100
       /\ v = 100 => 200 * Abs(W - D) <= D
       /\ W > 2 * D => v <= 0
       /\ 200 * (W - 2 * D) > D => v < 0

\* a returned plan whose daily calories exceed twice the target, with a
\* negative accuracy
C8_Witness ==
  /\ pc = "done"
  /\ ValidTarget(userProfile)
  /\ FinalWeekly("calories") > 2 * 7 * dailyTargets.calories
  /\ result.macroAccuracy.calories.value < 0

\* C9: after the fine-tuning step the daily average of calories, protein,
\* carbs and fat over the final assignments is each within 5% of its daily
\* target.
C9_AllMacrosWithinFivePercent ==
  (StagesDone /\ ValidTarget(userProfile) /\ Len(finalRecipes) > 0) =>
    \A field \in MacroFields :
      100 * Abs(FinalWeekly(field) - daysInWeek * dailyTargets[field])
        <= 5 * daysInWeek * dailyTargets[field]

\* C10: with an energy target <= 0 or a percentage outside 0..100 the
\* generation fails before any recipe is resolved, ranked or assigned, and no
\* plan is produced or stored.
C10_InvalidTargetsFailFast ==
  ~ValidTarget(userProfile) =>
    /\ pc \in {"start", "failed"}
    /\ recipesWithMacros = << >>
    /\ finalRecipes = << >>
    /\ mealPlan = Null
    /\ result = Null
    /\ meal_plans = {OldPlan}

\* a requirement of some recipe came without its ingredients row
HasDanglingReference ==
  \E i \in 1..Len(recipes) : \E k \in 1..Len(recipes[i].recipe_ingredients) :
     recipes[i].recipe_ingredients[k].ingredients = Null

\* C11: when a requirement of a recipe references an ingredient that has no
\* nutrition record attached, the whole generation is rejected with an error:
\* the requirement is not skipped, no stage output exists, no plan is
\* returned and the stored plan is left as it was.
C11_MissingReferenceRejected ==
  HasDanglingReference =>
    /\ pc \in {"start", "failed"}
    /\ pc = "failed" => thrown # "none"
    /\ recipesWithMacros = << >>
    /\ finalRecipes = << >>
    /\ mealPlan = Null
    /\ result = Null
    /\ meal_plans = {OldPlan}
    /\ meals = {OldMeal}

\* the resolver rejected a catalogue of two recipes, one of them complete and
\* cookable from the pantry
C11_Witness ==
  /\ pc = "failed"
  /\ thrown = "TypeError"
  /\ HasDanglingReference
  /\ \E i \in 1..Len(recipes) :
       /\ ~calculateRecipeMacrosThrows(recipes[i])
       /\ calculateAvailableServings(recipes[i], pantryItems) > 0

\* recipe i of the catalogue cannot be cooked: the pantry holds less of an
\* ingredient than one serving needs, or its availableServings was resolved to 0
Uncookable(i) ==
  \/ Starved(recipes[i])
  \/ /\ Len(recipesWithMacros) = Len(recipes)
     /\ recipesWithMacros[i].availableServings = 0

EmptyCatalogue ==
  /\ ~HasDanglingReference
  /\ \A i \in 1..Len(recipes) : Uncookable(i)

\* C12: with an empty recipe list, or with every recipe at availableServings
\* 0, the stages do not raise: every stage yields the empty assignment list,
\* the shortfall report is empty, and the result returned carries no meal and
\* no missing ingredient.
C12_EmptyCatalogueRecoverable ==
  ((pc \in {"delete", "done"} \/ thrown = "TypeError") /\ EmptyCatalogue) =>
    /\ thrown # "TypeError"
    /\ pc \notin {"start", "failed"} =>
         /\ proteinFilledRecipes = << >>
         /\ filledRecipes = << >>
         /\ finalRecipes = << >>
         /\ missingIngredients = << >>
    /\ pc = "done" =>
         /\ result.meals = << >>
         /\ result.missingIngredients = << >>

\* a plan returned for two recipes the pantry cannot cook, one of them for
\* lack of a single ingredient of two
C12_Witness ==
  /\ pc = "done"
  /\ EmptyCatalogue
  /\ Len(recipes) = 2
  /\ pantryItems # << >>
  /\ \E i \in 1..Len(recipes), ing \in IngredientSet :
       /\ Len(recipes[i].recipe_ingredients) = 2
       /\ QuantityIn(recipes[i], ing) <= OnHand(ing)
  /\ result.meals = << >>
  /\ result.missingIngredients = << >>

\* the meals row returned for selection k of the final assignments
MealOf(k) ==
  [recipe_id |-> finalRecipes[k].recipe,
   servings |-> finalRecipes[k].servings,
   day_of_week |-> finalRecipes[k].day,
   meal_slot |-> finalRecipes[k].slot]

\* C13: whenever generatePlan returns, the returned meals correspond one to
\* one, in order, with the final assignments the shortfall report and the
\* accuracy were computed from; no meal is missing for a failed insert.
C13_ReturnedMealsMatchAssignments ==
  pc = "done" =>
    /\ Len(result.meals) = Len(finalRecipes)
    /\ \A k \in 1..Len(result.meals) :
         /\ result.meals[k].recipe_id = MealOf(k).recipe_id
         /\ result.meals[k].servings = MealOf(k).servings
         /\ result.meals[k].day_of_week = MealOf(k).day_of_week
         /\ result.meals[k].meal_slot = MealOf(k).meal_slot

\* C14: a recipe with no ingredient requirement is not resolved to 0
\* available servings.
C14_ZeroRequirementUnlimited ==
  StagesDone =>
    \A i \in 1..Len(recipesWithMacros) :
      Len(recipesWithMacros[i].recipe_ingredients) = 0
        => recipesWithMacros[i].availableServings > 0

\* a selection without its day
WithoutDay(selection) ==
  [recipe |-> selection.recipe, servings |-> selection.servings, slot |-> selection.slot]

\* the lists the stages were handed, as they were when handed over, against
\* the state after the step that ran the stages
StageArgumentsKept ==
  LET dt == DailyTargetsOf(userProfile)
      rwm == ProcessRecipes(recipes, pantryItems)
      g == greedyProteinFill(rwm, dt)
      snacks == SnackFor(rwm, g.selectedRecipes, g.currentMacros, dt, "carbs")
                  \o SnackFor(rwm, g.selectedRecipes, g.currentMacros, dt, "fat")
      n == Len(g.selectedRecipes)
  IN /\ dailyTargets' = dt
     /\ recipesWithMacros' = rwm
     /\ proteinFilledRecipes' = g.selectedRecipes
     /\ Len(filledRecipes') = n + Len(snacks)
     /\ SubSeq(filledRecipes', 1, n) = g.selectedRecipes
     /\ \A j \in 1..Len(snacks) :
          /\ WithoutDay(filledRecipes'[n + j]) = snacks[j]
          /\ filledRecipes'[n + j].day \in 0..(daysInWeek - 1)

SameButSnackDay(a, b) ==
  /\ Len(a) = Len(b)
  /\ \A k \in 1..Len(a) :
       /\ WithoutDay(a[k]) = WithoutDay(b[k])
       /\ a[k].slot # "snack" => a[k].day = b[k].day

\* the assignments with every snack moved to day 0
SnacksOnDayZero(selectedRecipes) ==
  [k \in 1..Len(selectedRecipes) |->
     IF selectedRecipes[k].slot = "snack"
     THEN [selectedRecipes[k] EXCEPT !.day = 0]
     ELSE selectedRecipes[k]]

\* C16: whatever the random draws, the stages end with the selections,
\* servings and shortfall report of the run on the same targets, recipes and
\* pantry whose draws are all 0, and with the same day and slot for every
\* protein-fill assignment; only the day of a snack assignment may differ, and
\* the shortfall report and the accuracy returned do not depend on it.
C16_Determinism ==
  /\ pc = "delete" =>
       LET dt == DailyTargetsOf(userProfile)
           rwm == ProcessRecipes(recipes, pantryItems)
           g == greedyProteinFill(rwm, dt)
           filled == fillRemainingMacros(rwm, g.selectedRecipes, g.currentMacros, dt, 0, 0)
           final == fineTuneMacros(rwm, filled, dt)
       IN /\ proteinFilledRecipes = g.selectedRecipes
          /\ SameButSnackDay(filledRecipes, filled)
          /\ SameButSnackDay(finalRecipes, final)
          /\ SnacksOnDayZero(finalRecipes) = final
          /\ missingIngredients = calculateMissingIngredients(rwm, final, pantryItems)
  /\ pc = "done" =>
       /\ result.missingIngredients
            = calculateMissingIngredients(recipesWithMacros, SnacksOnDayZero(finalRecipes),
                                          pantryItems)
       /\ result.macroAccuracy
            = MacroAccuracyOf(recipesWithMacros, SnacksOnDayZero(finalRecipes), dailyTargets)

\* a returned run whose random draw was 6, after a protein-fill assignment
C16_Witness ==
  /\ pc = "done"
  /\ Len(proteinFilledRecipes) > 0
  /\ \E k \in 1..Len(finalRecipes) :
       /\ finalRecipes[k].slot = "snack"
       /\ finalRecipes[k].day = daysInWeek - 1

\* the protein-fill stage has returned
ProteinFilled == pc = "gaps"

\* the resolved recipe of assignment k of the protein-fill stage
FilledRecipe(k) == recipesWithMacros[proteinFilledRecipes[k].recipe]

\* weekly protein still missing before assignment k: 7 x (target - accumulated / 7)
WeeklyProteinGapBefore(k) ==
  daysInWeek * dailyTargets.protein - ProteinOfPrefix(k - 1)

\* C17: every assignment of the protein-fill stage is made while the protein
\* gap is positive and has min(ceil(gap / proteinPerServing), availableServings,
\* 3) servings, gap = target - accumulated / 7 (the quotient is unbounded for
\* 0 g of protein per serving); an available recipe is left without an
\* assignment only once the gap is closed; and for a 150 g target and the
\* single recipe of 40 g protein with 10 available servings the stage emits
\* exactly one assignment, with 3 servings.
C17_ProteinFillServings ==
  ProteinFilled =>
    /\ \A k \in 1..Len(proteinFilledRecipes) :
         LET s == proteinFilledRecipes[k].servings
             p == daysInWeek * FilledRecipe(k).macros.protein
             cap == Min2(FilledRecipe(k).availableServings, 3)
         IN /\ WeeklyProteinGapBefore(k) > 0
            /\ s <= cap
            /\ (s - 1) * p < WeeklyProteinGapBefore(k)
            /\ s * p >= WeeklyProteinGapBefore(k) \/ s = cap
    /\ (\E i \in 1..Len(recipesWithMacros) :
          /\ recipesWithMacros[i].availableServings > 0
          /\ i \notin RecipeIdsOf(proteinFilledRecipes))
         => WeeklyProteinGapBefore(Len(proteinFilledRecipes) + 1) <= 0
    /\ ( /\ dailyTargets.protein = 150
         /\ Len(recipesWithMacros) = 1
         /\ recipesWithMacros[1].macros.protein = 40
         /\ recipesWithMacros[1].availableServings = 10 )
         => /\ Len(proteinFilledRecipes) = 1
            /\ proteinFilledRecipes[1].servings = 3

\* the scenario of the claim, and the stage has run
C17_Witness ==
  /\ ProteinFilled
  /\ dailyTargets.protein = 150
  /\ Len(recipesWithMacros) = 1
  /\ recipesWithMacros[1].macros.protein = 40
  /\ recipesWithMacros[1].availableServings = 10
  /\ Len(proteinFilledRecipes) = 1
  /\ proteinFilledRecipes[1].servings = 3

\* protein / energy of a is greater than that of b (0 when the energy is 0)
Denser(a, b) ==
  LET da == IF a.macros.calories > 0 THEN <<a.macros.protein, a.macros.calories>> ELSE <<0, 1>>
      db == IF b.macros.calories > 0 THEN <<b.macros.protein, b.macros.calories>> ELSE <<0, 1>>
  IN da[1] * db[2] > db[1] * da[2]

\* a comes before b in the order of the visit
VisitedBefore(a, b) == Denser(a, b) \/ (~Denser(b, a) /\ a.id < b.id)

\* C18: the assignments of the protein-fill stage follow the non-increasing
\* order of protein density (protein / energy, 0 when the energy is 0) of the
\* available recipes, recipes of equal density in input order; an available
\* recipe without an assignment comes after every recipe that has one.
C18_VisitOrder ==
  ProteinFilled =>
    /\ \A k \in 1..(Len(proteinFilledRecipes) - 1) :
         VisitedBefore(FilledRecipe(k), FilledRecipe(k + 1))
    /\ \A k \in 1..Len(proteinFilledRecipes), i \in 1..Len(recipesWithMacros) :
         ( /\ recipesWithMacros[i].availableServings > 0
           /\ i \notin RecipeIdsOf(proteinFilledRecipes) )
         => VisitedBefore(FilledRecipe(k), recipesWithMacros[i])

\* three assignments that reverse the input order, two recipes of equal
\* density among them in input order
C18_Witness ==
  /\ ProteinFilled
  /\ Len(proteinFilledRecipes) >= 3
  /\ \E j, k \in 1..Len(proteinFilledRecipes) :
       /\ j < k
       /\ proteinFilledRecipes[j].recipe > proteinFilledRecipes[k].recipe
  /\ \E k \in 1..(Len(proteinFilledRecipes) - 1) :
       /\ ~Denser(FilledRecipe(k), FilledRecipe(k + 1))
       /\ proteinFilledRecipes[k].recipe < proteinFilledRecipes[k + 1].recipe

\* C19: assignment number k (from 0) of the protein-fill stage has slot
\* breakfast, lunch, dinner for k mod 3 = 0, 1, 2 and day floor(k / 3) mod 7;
\* recipes without an assignment take no position, and no assignment of the
\* stage is in the snack slot.
C19_SlotCursor ==
  ProteinFilled =>
    \A n \in 1..Len(proteinFilledRecipes) :
      LET k == n - 1
      IN /\ proteinFilledRecipes[n].slot
              = <<"breakfast", "lunch", "dinner">>[(k % 3) + 1]
         /\ proteinFilledRecipes[n].day = (k \div 3) % 7
         /\ proteinFilledRecipes[n].slot # "snack"

\* four assignments, the fourth on day 1, with an unavailable recipe among the
\* recipes before the last one assigned
C19_Witness ==
  /\ ProteinFilled
  /\ Len(proteinFilledRecipes) = 4
  /\ proteinFilledRecipes[4].day = 1
  /\ proteinFilledRecipes[4].slot = "breakfast"
  /\ \E i \in 1..Len(recipesWithMacros) : recipesWithMacros[i].availableServings = 0

\* the gap filler has returned
GapsFilled == pc = "tune"

\* assignment j of those the gap filler added
Added(j) == filledRecipes[Len(proteinFilledRecipes) + j]

\* weekly amount of a macro still missing after the protein-fill stage:
\* 7 x (target - accumulated / 7)
WeeklyGapOf(field) ==
  daysInWeek * dailyTargets[field]
    - WeeklyOf(recipesWithMacros, proteinFilledRecipes, field)

\* the added assignment is the one for this macro: its recipe is richer in it
\* than in the other macro
AddedFor(j, field) ==
  LET m == recipesWithMacros[Added(j).recipe].macros
  IN IF field = "carbs" THEN m.carbs > m.fat ELSE m.fat > m.carbs

\* C20: the gap filler returns the assignments it received, unchanged, followed
\* by at most one assignment for carbohydrate and at most one for fat, each
\* only if the daily gap of its macro is positive; an added assignment is in
\* the snack slot on a day in 0..6, its recipe has no protein-fill assignment
\* and availableServings > 0, and its servings are min(ceil(gap /
\* macroGramsPerServing), availableServings, 2).
C20_GapFiller ==
  GapsFilled =>
    LET n == Len(proteinFilledRecipes)
        added == Len(filledRecipes) - n
    IN /\ added \in 0..2
       /\ SubSeq(filledRecipes, 1, n) = proteinFilledRecipes
       /\ \A field \in {"carbs", "fat"} :
            Cardinality({j \in 1..added : AddedFor(j, field)}) <= 1
       /\ \A j \in 1..added :
            LET r == recipesWithMacros[Added(j).recipe]
            IN /\ Added(j).slot = "snack"
               /\ Added(j).day \in 0..6
               /\ r.id \notin RecipeIdsOf(proteinFilledRecipes)
               /\ r.availableServings > 0
               /\ \E field \in {"carbs", "fat"} :
                    /\ AddedFor(j, field)
                    /\ WeeklyGapOf(field) > 0
                    /\ Added(j).servings
                         = Min2(Min2(Ceil(WeeklyGapOf(field), daysInWeek * r.macros[field]),
                                     r.availableServings), 2)

\* after two protein-fill assignments the gap filler added a carbohydrate and
\* a fat assignment, one of them of 2 servings, on different days
C20_Witness ==
  /\ GapsFilled
  /\ Len(proteinFilledRecipes) = 2
  /\ Len(filledRecipes) = 4
  /\ AddedFor(1, "carbs")
  /\ AddedFor(2, "fat")
  /\ Added(1).servings = 2
  /\ Added(1).day # Added(2).day

\* the fine-tuning has returned
FineTuned == pc = "tuned"

\* 7 x |dailyAvgCalories - targetCalories| of a list of assignments
WeeklyCalorieDeviation(selectedRecipes) ==
  LET weekly == WeeklyOf(recipesWithMacros, selectedRecipes, "calories")
      target == daysInWeek * dailyTargets.calories
  IN IF weekly >= target THEN weekly - target ELSE target - weekly

\* d > num / den for the plan the fine-tuning received
DeviationAbove(num, den) ==
  WeeklyCalorieDeviation(filledRecipes) * den > num * daysInWeek * dailyTargets.calories

\* after = max(1, round(before x tenths / 10)), round to the nearest, ties up
ScaledTo(after, before, tenths) ==
  \E v \in 0..before :
    /\ 2 * (10 * v - tenths * before) <= 10
    /\ 2 * (10 * v - tenths * before) > -10
    /\ after = IF v < 1 THEN 1 ELSE v

\* C21: the fine-tuning returns as many assignments as it received, each with
\* its recipe, day and slot; with d = |dailyAvgCalories - target| / target of
\* the plan received, the servings are unchanged if d <= 0.15, and otherwise
\* max(1, round(servings x m)), m = 0.8 if d > 0.5 and m = 0.9 if not.
C21_FineTuneRule ==
  FineTuned =>
    /\ Len(finalRecipes) = Len(filledRecipes)
    /\ \A k \in 1..Len(filledRecipes) :
         /\ finalRecipes[k].recipe = filledRecipes[k].recipe
         /\ finalRecipes[k].day = filledRecipes[k].day
         /\ finalRecipes[k].slot = filledRecipes[k].slot
         /\ IF ~DeviationAbove(15, 100)
            THEN finalRecipes[k].servings = filledRecipes[k].servings
            ELSE IF DeviationAbove(1, 2)
                 THEN ScaledTo(finalRecipes[k].servings, filledRecipes[k].servings, 8)
                 ELSE ScaledTo(finalRecipes[k].servings, filledRecipes[k].servings, 9)

\* a plan more than 50% off with assignments of 1, 2 and 3 servings, of which
\* only the last was changed
C21_Witness ==
  /\ FineTuned
  /\ DeviationAbove(1, 2)
  /\ \E i, j, k \in 1..Len(filledRecipes) :
       /\ filledRecipes[i].servings = 1 /\ finalRecipes[i].servings = 1
       /\ filledRecipes[j].servings = 2 /\ finalRecipes[j].servings = 2
       /\ filledRecipes[k].servings = 3 /\ finalRecipes[k].servings = 2

\* C22: the deviation of the daily-average calories from the target is not
\* greater after the fine-tuning than before it.
C22_DeviationNotIncreased ==
  FineTuned =>
    WeeklyCalorieDeviation(finalRecipes) <= WeeklyCalorieDeviation(filledRecipes)

\* C23: no recipe has two assignments in a plan: not after the protein fill,
\* not after the gap filler (whose carbohydrate and fat picks differ from each
\* other and from the recipes already selected), not in the final plan.
C23_RecipeAtMostOnce ==
  \A plan \in {proteinFilledRecipes, filledRecipes, finalRecipes} :
    \A j, k \in 1..Len(plan) : j # k => plan[j].recipe # plan[k].recipe

\* a final plan of two protein-fill assignments and two snacks, where a recipe
\* richer in carbohydrate than in fat is among those already selected
C23_Witness ==
  /\ FineTuned
  /\ Len(proteinFilledRecipes) = 2
  /\ Len(finalRecipes) = 4
  /\ \E k \in 1..2 : FilledRecipe(k).macros.carbs > FilledRecipe(k).macros.fat

\* C25: the fine-tuning changes an assignment only from 3 servings to 2, and
\* only when the calorie deviation exceeds 50%; it then changes every
\* assignment of 3 servings, and at a deviation of at most 50% it leaves every
\* assignment as it was.
C25_OnlyThreeBecomesTwo ==
  FineTuned =>
    \A k \in 1..Len(filledRecipes) :
      /\ filledRecipes[k].servings \in 1..3
      /\ IF DeviationAbove(1, 2) /\ filledRecipes[k].servings = 3
         THEN finalRecipes[k].servings = 2
         ELSE finalRecipes[k] = filledRecipes[k]

\* a plan between 15% and 50% off with an assignment of 3 servings, unchanged
C25_Witness ==
  /\ FineTuned
  /\ DeviationAbove(15, 100)
  /\ ~DeviationAbove(1, 2)
  /\ \E k \in 1..Len(filledRecipes) : filledRecipes[k].servings = 3
  /\ finalRecipes = filledRecipes

\* C26: every assignment of the protein-fill stage is for a recipe with more
\* than 0 g of protein per serving, so it lowers the protein gap.
C26_ProteinFillUsesProtein ==
  ProteinFilled =>
    \A k \in 1..Len(proteinFilledRecipes) :
      /\ FilledRecipe(k).macros.protein > 0
      /\ WeeklyProteinGapBefore(k + 1) < WeeklyProteinGapBefore(k)


\* an ingredient two different assignments of the final plan both require
SharedIngredient(ing) ==
  \E a, b \in 1..Len(finalRecipes) :
     /\ a # b
     /\ QuantityIn(recipesWithMacros[finalRecipes[a].recipe], ing) > 0
     /\ QuantityIn(recipesWithMacros[finalRecipes[b].recipe], ing) > 0

\* C24: for a plan produced by the pipeline in which no ingredient is required
\* by two different assigned recipes, missingIngredients is empty: a shortfall
\* can only come from two or more assignments drawing on one pantry ingredient.
C24_ShortfallOnlyFromSharing ==
  (pc = "delete" /\ \A ing \in IngredientSet : ~SharedIngredient(ing))
    => missingIngredients = << >>

\* a plan of two assignments on disjoint ingredients, nothing missing
C24_Witness ==
  /\ pc = "delete"
  /\ Len(finalRecipes) = 2
  /\ \A ing \in IngredientSet : ~SharedIngredient(ing)
  /\ \A k \in 1..2 : finalRecipes[k].servings >= 2
  /\ missingIngredients = << >>


\* C27: when generatePlan fails, the meal plan and the meals stored before the
\* call for that user and week are still present.
C27_StoredStateKeptOnFailure ==
  pc = "failed" => (OldPlan \in meal_plans /\ OldMeal \in meals)


\* C29: for every valid target (energy > 0, each percentage in 0..100, a
\* percentage of exactly 0 included) every field of the returned macroAccuracy
\* is a finite number.
C29_AccuracyFinite ==
  (pc = "done" /\ ValidTarget(userProfile)) =>
    \A field \in MacroFields : result.macroAccuracy[field].kind = "finite"


\* the rows an invocation returns are stored at the moment it returns
ReturnedRowsStored(c) ==
  (invocations[c].pc # "done" /\ invocations'[c].pc = "done") =>
    /\ invocations'[c].result.mealPlan \in meal_plans'
    /\ \A k \in 1..Len(invocations'[c].result.meals) :
         invocations'[c].result.meals[k] \in meals'

\* C28: under any interleaving of two generatePlan invocations for the same
\* user and week, at the moment an invocation returns successfully the meal
\* plan row it returns and every meal it returns exist in the database.
C28_ConcurrentGenerationSafe ==
  [][\A c \in Invocations : ReturnedRowsStored(c)]_vars


TimerWith(id) == CHOOSE k \in 1..Len(timers) : timers[k].id = id

\* the timer is counting down
Running(id) == id \in IdsOf(timers) /\ timers[TimerWith(id)].isActive

Completed(id) ==
  /\ id \in IdsOf(timers)
  /\ timers[TimerWith(id)].isCompleted
  /\ ~timers[TimerWith(id)].isActive
  /\ timers[TimerWith(id)].remaining = 0

\* paused or reset
Halted(id) ==
  /\ id \in IdsOf(timers)
  /\ ~timers[TimerWith(id)].isActive
  /\ ~timers[TimerWith(id)].isCompleted

Removed(id) == id \notin IdsOf(timers)

\* C30: under fair one-second ticks, every timer that has been started
\* (startTimer / resumeTimer) and is not afterwards paused, reset or removed
\* eventually becomes completed (isCompleted, not isActive, remaining 0), for
\* any sequence of operations, a start of an already completed timer included.
C30_StartedTimerCompletes ==
  \A id \in TimerIds : Running(id) ~> (Completed(id) \/ Halted(id) \/ Removed(id))

====
